---- MODULE Spec2Model ----
(***************************************************************************)
(* Model of the performance-measurement harness of                         *)
(* solutions/end-to-end-stack/benchmarks/performance_test.py:              *)
(*   - DataFusionPerformanceTest: execute_query (the timer) and the three  *)
(*     execution modes test_single_query_performance,                      *)
(*     test_concurrent_queries and test_throughput      (specification     *)
(*     Spec, SpecConc with fairness for liveness, and SpecPool for the     *)
(*     worker pool with longer lists of queries);                          *)
(*   - SystemPerformanceTest._analyze_results           (SpecAgg);         *)
(*   - VectorPerformanceTest: get_metrics, _parse_metrics and              *)
(*     test_log_processing_rate           (SpecScrape, SpecRate);        *)
(*   - SystemPerformanceTest.run_comprehensive_test and main (SpecRun),    *)
(*     generate_report alone                            (SpecReport);      *)
(*   - DataFusionClient of multi-language-clients/python/client.py         *)
(*     (SpecClient).                                                       *)
(*                                                                         *)
(* Abstractions.  Wall-clock time (time.time(), a float) is an integer     *)
(* clock `now` that may advance between any two steps.  Rates and means    *)
(* (Python floats) are exact rationals [num, den] in lowest terms.  A      *)
(* query text is a small integer.  str(e) is the single text Err.          *)
(***************************************************************************)
EXTENDS Integers, Sequences, FiniteSets, TLC

\* ------------------------------------------------------------------ bounds
MaxQueries == 2      \* longest list of queries handed to a mode
MaxWorkers == 2      \* largest concurrency limit (max_workers)
MaxIterations == 2   \* largest repeat count of the sequential mode
MaxTime == 2         \* the clock stops advancing here
MaxSamples == 3      \* the throughput loop starts no invocation beyond this
MaxLen == 3          \* longest list handed to _analyze_results
MaxDuration == 2     \* largest duration of a record handed to _analyze_results
MaxCounter == 2      \* largest counter value an endpoint exposes
MaxWindow == 2       \* largest duration_seconds of test_log_processing_rate
MaxLineLen == 3      \* longest first line of an exposition text (SpecScrape)
MaxPoolQueries == 3  \* longest list of queries handed to the pool (SpecPool)
MaxCalls == 5        \* most calls of DataFusionClient.execute_query (SpecClient)

None == "None"       \* Python's None
Err == "error"       \* str(e) of a caught exception
Rows == "row_count"  \* metadata={"row_count": len(table)}

VARIABLES
    mode,             \* which mode was called: "single", "concurrent", "throughput"
    queries,          \* the list of queries (one query for the throughput loop)
    iterations,       \* test_single_query_performance(iterations)
    concurrency,      \* test_concurrent_queries(concurrency)
    duration_seconds, \* test_throughput(duration_seconds)
    pc,               \* position of the calling thread
    results,          \* the list `results` of the mode
    now,              \* time.time()
    invocations,      \* number of client.do_get calls made so far (history)
    failures,         \* number of those calls that raised (history)
    qi,               \* sequential mode: index of `query` in queries
    it,               \* sequential mode: `i` of range(iterations)
    query_results,    \* sequential mode: the inner list
    call_start,       \* start_time of the execute_query call of the calling thread
    futures,          \* concurrent mode: the state of each submitted future
    work_queue,       \* concurrent mode: the executor's FIFO of work items
    threads,          \* concurrent mode: worker threads spawned so far
    idle_sem,         \* concurrent mode: the executor's idle semaphore
    yielded,          \* concurrent mode: futures as_completed has yielded
    next_submit,      \* concurrent mode: next query of the dict comprehension
    start_time,       \* throughput loop: start_time
    query_count       \* throughput loop: query_count

execVars == <<mode, queries, iterations, concurrency, duration_seconds, pc, results,
              now, invocations, failures, qi, it, query_results, call_start,
              futures, work_queue, threads, idle_sem, yielded, next_submit, start_time,
              query_count>>

\* _analyze_results applied to a list of samples (SpecAgg)
VARIABLES
    agg_pc,           \* "input" before the call, "done" after it
    samples,          \* the argument `results`
    analysis          \* the returned dict

aggVars == <<agg_pc, samples, analysis>>

\* VectorPerformanceTest.test_log_processing_rate (SpecRate, SpecRun)
VARIABLES
    rate_pc,          \* position inside test_log_processing_rate
    rate_duration,    \* its argument duration_seconds
    initial_edge,     \* the four snapshots
    initial_agg,
    final_edge,
    final_agg,
    rate_result       \* the returned dict

rateVars == <<rate_pc, rate_duration, initial_edge, initial_agg, final_edge,
              final_agg, rate_result>>

\* SystemPerformanceTest.run_comprehensive_test and main (SpecRun)
VARIABLES
    run_pc,           \* position inside main / run_comprehensive_test
    connected,        \* what datafusion_test.connect() returned
    run_results,      \* the dict `results`
    report,           \* the text generate_report returned
    printed,          \* print(report) was reached
    saved             \* save_results wrote the file

runVars == <<run_pc, connected, run_results, report, printed, saved>>

\* VectorPerformanceTest.get_metrics applied to one response (SpecScrape)
VARIABLES
    scrape_pc,        \* "request" before requests.get has ended, "returned" after
    response,         \* what requests.get did
    metrics_snapshot  \* the dict get_metrics returned

scrapeVars == <<scrape_pc, response, metrics_snapshot>>

\* DataFusionClient of client.py, and the timer given the same answers
\* (SpecClient)
VARIABLES
    client_pc,        \* "new" after __init__, "ready" after connect()
    client,           \* self.client: None, or the Flight client
    client_calls,     \* calls of execute_query made so far (history)
    client_requests,  \* do_get requests issued so far (history)
    client_answer,    \* what the service did with the last request (history)
    client_rejections,\* requests the service rejected so far (history)
    client_raised,    \* calls of execute_query that raised so far (history)
    client_result,    \* how the last call of execute_query ended
    timer_sample      \* the record the timer makes of the same answer

clientVars == <<client_pc, client, client_calls, client_requests, client_answer,
                client_rejections, client_raised, client_result, timer_sample>>

vars == <<execVars, aggVars, rateVars, runVars, scrapeVars, clientVars>>

otherThanExec == <<aggVars, rateVars, runVars, scrapeVars, clientVars>>

\* ------------------------------------------------------ PerformanceResult
\* The dataclass.  `src` is a history field (not in the code): the index of the
\* invocation or future the record was made for.
PerformanceResult(operation, duration, success, error, metadata, src) ==
    [operation |-> operation, duration |-> duration, success |-> success,
     error |-> error, metadata |-> metadata, src |-> src]

\* Mutant of ExecuteQuery: no try/except around the request, the exception
\* of a failing query leaves execute_query.
ExecuteQuery_Propagates(sql, startT, end_time, ok, src) ==
    IF ok
    THEN [kind |-> "return",
          value |-> PerformanceResult(sql, end_time - startT, TRUE, None, Rows, src)]
    ELSE [kind |-> "raise", value |-> None]

\* Mutant of ExecuteQuery: the failure record is given the duration 0, the
\* time is measured on the success path only.
ExecuteQuery_NoFailureDuration(sql, startT, end_time, ok, src) ==
    IF ok
    THEN [kind |-> "return",
          value |-> PerformanceResult(sql, end_time - startT, TRUE, None, Rows, src)]
    ELSE [kind |-> "return",
          value |-> PerformanceResult(sql, 0, FALSE, Err, None, src)]

\* ---------------------------------------------------------- execute_query
\* What execute_query does once the do_get/read_all call has ended at time
\* end_time, either normally (ok) or by raising: both paths return a record.
ExecuteQuery(sql, startT, end_time, ok, src) ==
    IF ok
    THEN [kind |-> "return",
          value |-> PerformanceResult(sql, end_time - startT, TRUE, None, Rows, src)]
    ELSE [kind |-> "return",
          value |-> PerformanceResult(sql, end_time - startT, FALSE, Err, None, src)]

\* ------------------------------------------------------------------ clock
\* Time passes while the mode has not returned.
Tick ==
    /\ pc \notin {"returned", "raised", "idle"}
    /\ now < MaxTime
    /\ now' = now + 1
    /\ UNCHANGED <<mode, queries, iterations, concurrency, duration_seconds, pc,
                   results, invocations, qi, it, query_results, call_start, futures,
                   work_queue, threads, idle_sem, yielded, next_submit, start_time,
                   query_count>>
    /\ UNCHANGED <<failures, otherThanExec>>

\* Mutant of BeginCall: the next request is issued together with this one,
\* before this one has ended.
BeginCall_Pair(nextpc) ==
    /\ call_start' = now
    /\ invocations' = invocations + 2
    /\ pc' = nextpc

\* A call of execute_query by the calling thread (sequential mode and loop):
\* start_time = time.time(), then the request is issued.
BeginCall(nextpc) ==
    /\ call_start' = now
    /\ invocations' = invocations + 1
    /\ pc' = nextpc

\* ------------------------------------- test_single_query_performance
\* for query in queries: query_results = []
SingleOuter ==
    /\ mode = "single" /\ pc = "outer"
    /\ IF qi <= Len(queries)
       THEN /\ query_results' = <<>>
            /\ it' = 0
            /\ pc' = "inner"
            /\ UNCHANGED results
       ELSE /\ pc' = "returned"
            /\ UNCHANGED <<query_results, it, results>>
    /\ UNCHANGED <<mode, queries, iterations, concurrency, duration_seconds, now,
                   invocations, qi, call_start, futures, work_queue, threads,
                   idle_sem, yielded, next_submit, start_time, query_count>>
    /\ UNCHANGED <<failures, otherThanExec>>

\* Mutant of SingleInner: the records of a query are put in front of the
\* records of the queries before it.
SingleInner_Prepend ==
    /\ mode = "single" /\ pc = "inner"
    /\ IF it < iterations
       THEN /\ BeginCall("call")
            /\ UNCHANGED <<results, qi>>
       ELSE /\ results' = query_results \o results
            /\ qi' = qi + 1
            /\ pc' = "outer"
            /\ UNCHANGED <<call_start, invocations>>
    /\ UNCHANGED <<mode, queries, iterations, concurrency, duration_seconds, now,
                   it, query_results, futures, work_queue, threads, idle_sem,
                   yielded, next_submit, start_time, query_count>>
    /\ UNCHANGED <<failures, otherThanExec>>

\* for i in range(iterations): self.execute_query(query) is entered; when the
\* range is exhausted, results.extend(query_results) and the next query.
SingleInner ==
    /\ mode = "single" /\ pc = "inner"
    /\ IF it < iterations
       THEN /\ BeginCall("call")
            /\ UNCHANGED <<results, qi>>
       ELSE /\ results' = results \o query_results
            /\ qi' = qi + 1
            /\ pc' = "outer"
            /\ UNCHANGED <<call_start, invocations>>
    /\ UNCHANGED <<mode, queries, iterations, concurrency, duration_seconds, now,
                   it, query_results, futures, work_queue, threads, idle_sem,
                   yielded, next_submit, start_time, query_count>>
    /\ UNCHANGED <<failures, otherThanExec>>

\* Mutant of SingleCallEnds: a failed request is issued a second time before
\* the failure is recorded.
SingleCallEnds_Retry ==
    /\ mode = "single" /\ pc = "call"
    /\ \E ok \in BOOLEAN :
         LET r == ExecuteQuery(queries[qi], call_start, now, ok,
                               (qi - 1) * iterations + it + 1)
         IN /\ failures' = failures + (IF ok THEN 0 ELSE 1)
            /\ invocations' = invocations + (IF ok THEN 0 ELSE 1)
            /\ IF r.kind = "return"
               THEN /\ query_results' = Append(query_results, r.value)
                    /\ pc' = "sleep"
               ELSE /\ pc' = "raised"
                    /\ UNCHANGED query_results
    /\ UNCHANGED <<mode, queries, iterations, concurrency, duration_seconds, results,
                   now, qi, it, call_start, futures, work_queue,
                   threads, idle_sem, yielded, next_submit, start_time, query_count>>
    /\ UNCHANGED otherThanExec

\* execute_query returns (or raises); query_results.append(result)
SingleCallEnds ==
    /\ mode = "single" /\ pc = "call"
    /\ \E ok \in BOOLEAN :
         LET r == ExecuteQuery(queries[qi], call_start, now, ok,
                               (qi - 1) * iterations + it + 1)
         IN /\ failures' = failures + (IF ok THEN 0 ELSE 1)
            /\ IF r.kind = "return"
               THEN /\ query_results' = Append(query_results, r.value)
                    /\ pc' = "sleep"
               ELSE /\ pc' = "raised"
                    /\ UNCHANGED query_results
    /\ UNCHANGED <<mode, queries, iterations, concurrency, duration_seconds, results,
                   now, invocations, qi, it, call_start, futures, work_queue,
                   threads, idle_sem, yielded, next_submit, start_time, query_count>>
    /\ UNCHANGED otherThanExec

\* time.sleep(0.1), then the next i
SingleSleep ==
    /\ mode = "single" /\ pc = "sleep"
    /\ it' = it + 1
    /\ pc' = "inner"
    /\ UNCHANGED <<mode, queries, iterations, concurrency, duration_seconds, results,
                   now, invocations, qi, query_results, call_start, futures,
                   work_queue, threads, idle_sem, yielded, next_submit, start_time,
                   query_count>>
    /\ UNCHANGED <<failures, otherThanExec>>

\* ------------------------------------------------- test_concurrent_queries
Unsubmitted == [state |-> "unsubmitted", startT |-> 0, outcome |-> None]

InFlight == {i \in DOMAIN futures : futures[i].state = "running"}

\* Mutant of AdjustThreadCount: a thread per submitted work item, max_workers
\* ignored.
AdjustThreadCount_NoLimit ==
    /\ threads' = threads + 1
    /\ UNCHANGED idle_sem

\* ThreadPoolExecutor(max_workers=concurrency): on a submit the executor
\* spawns a worker unless one is idle or max_workers threads exist.
AdjustThreadCount ==
    IF idle_sem > 0
    THEN /\ idle_sem' = idle_sem - 1
         /\ UNCHANGED threads
    ELSE /\ threads' = IF threads < concurrency THEN threads + 1 ELSE threads
         /\ UNCHANGED idle_sem

\* executor.submit(execute_query_worker, query) for the next query of the dict
\* comprehension: the work item is queued; after the last one the calling
\* thread goes on to as_completed.
Submit ==
    /\ mode = "concurrent" /\ pc = "submit"
    /\ IF next_submit <= Len(queries)
       THEN /\ futures' = [futures EXCEPT ![next_submit].state = "pending"]
            /\ work_queue' = Append(work_queue, next_submit)
            /\ AdjustThreadCount
            /\ next_submit' = next_submit + 1
            /\ UNCHANGED pc
       ELSE /\ pc' = "collect"
            /\ UNCHANGED <<futures, work_queue, threads, idle_sem, next_submit>>
    /\ UNCHANGED <<mode, queries, iterations, concurrency, duration_seconds, results,
                   now, invocations, qi, it, query_results, call_start, yielded,
                   start_time, query_count>>
    /\ UNCHANGED <<failures, otherThanExec>>

\* Mutant of CanStart: the workers take the next work items only when all
\* of them have ended theirs (the pool works in batches).
CanStart_Batch == threads > 0 /\ InFlight = {}

\* A worker thread that runs no work item takes the head of the queue and
\* enters execute_query_worker -> execute_query.
CanStart == threads - Cardinality(InFlight) > 0

WorkerStart ==
    /\ mode = "concurrent"
    /\ work_queue # <<>>
    /\ CanStart
    /\ LET i == Head(work_queue)
       IN futures' = [futures EXCEPT ![i] = [state |-> "running", startT |-> now,
                                             outcome |-> None]]
    /\ work_queue' = Tail(work_queue)
    /\ invocations' = invocations + 1
    /\ UNCHANGED <<mode, queries, iterations, concurrency, duration_seconds, pc,
                   results, now, qi, it, query_results, call_start, threads,
                   idle_sem, yielded, next_submit, start_time, query_count>>
    /\ UNCHANGED <<failures, otherThanExec>>

\* Mutant of WorkerFinish: the worker appends its record to the shared list
\* itself.
WorkerFinish_Appends ==
    /\ mode = "concurrent"
    /\ \E i \in InFlight, ok \in BOOLEAN :
         /\ futures' = [futures EXCEPT ![i] =
                          [state |-> "finished", startT |-> futures[i].startT,
                           outcome |-> ExecuteQuery(queries[i], futures[i].startT,
                                                    now, ok, i)]]
         /\ failures' = failures + (IF ok THEN 0 ELSE 1)
         /\ results' = Append(results,
                              ExecuteQuery(queries[i], futures[i].startT,
                                           now, ok, i).value)
    /\ idle_sem' = idle_sem + 1
    /\ UNCHANGED <<mode, queries, iterations, concurrency, duration_seconds, pc,
                   now, invocations, qi, it, query_results, call_start,
                   work_queue, threads, yielded, next_submit, start_time,
                   query_count>>
    /\ UNCHANGED otherThanExec

\* The work item ends: the future holds what execute_query returned, or the
\* exception it raised; the worker releases the idle semaphore.
WorkerFinish ==
    /\ mode = "concurrent"
    /\ \E i \in InFlight, ok \in BOOLEAN :
         /\ futures' = [futures EXCEPT ![i] =
                          [state |-> "finished", startT |-> futures[i].startT,
                           outcome |-> ExecuteQuery(queries[i], futures[i].startT,
                                                    now, ok, i)]]
         /\ failures' = failures + (IF ok THEN 0 ELSE 1)
    /\ idle_sem' = idle_sem + 1
    /\ UNCHANGED <<mode, queries, iterations, concurrency, duration_seconds, pc,
                   results, now, invocations, qi, it, query_results, call_start,
                   work_queue, threads, yielded, next_submit, start_time,
                   query_count>>
    /\ UNCHANGED otherThanExec

\* try: result = future.result() / except: the failure record with duration 0
CollectedSample(i) ==
    IF futures[i].outcome.kind = "return"
    THEN futures[i].outcome.value
    ELSE PerformanceResult(queries[i], 0, FALSE, Err, None, i)

\* Mutant of Collect: the record of the future yielded is put in front of
\* the records collected before it.
Collect_Prepend ==
    /\ mode = "concurrent" /\ pc = "collect"
    /\ \E i \in DOMAIN futures :
         /\ futures[i].state = "finished"
         /\ i \notin yielded
         /\ results' = <<CollectedSample(i)>> \o results
         /\ yielded' = yielded \cup {i}
    /\ UNCHANGED <<mode, queries, iterations, concurrency, duration_seconds, pc,
                   now, invocations, qi, it, query_results, call_start, futures,
                   work_queue, threads, idle_sem, next_submit, start_time,
                   query_count>>
    /\ UNCHANGED <<failures, otherThanExec>>

\* Mutant of Collect: only successful results are appended.
Collect_DropFailures ==
    /\ mode = "concurrent" /\ pc = "collect"
    /\ \E i \in DOMAIN futures :
         /\ futures[i].state = "finished"
         /\ i \notin yielded
         /\ results' = IF CollectedSample(i).success
                       THEN Append(results, CollectedSample(i))
                       ELSE results
         /\ yielded' = yielded \cup {i}
    /\ UNCHANGED <<mode, queries, iterations, concurrency, duration_seconds, pc,
                   now, invocations, qi, it, query_results, call_start, futures,
                   work_queue, threads, idle_sem, next_submit, start_time,
                   query_count>>
    /\ UNCHANGED <<failures, otherThanExec>>

\* One round of `for future in as_completed(future_to_query)`: a finished
\* future not yet yielded is yielded and its record appended by the caller.
Collect ==
    /\ mode = "concurrent" /\ pc = "collect"
    /\ \E i \in DOMAIN futures :
         /\ futures[i].state = "finished"
         /\ i \notin yielded
         /\ results' = Append(results, CollectedSample(i))
         /\ yielded' = yielded \cup {i}
    /\ UNCHANGED <<mode, queries, iterations, concurrency, duration_seconds, pc,
                   now, invocations, qi, it, query_results, call_start, futures,
                   work_queue, threads, idle_sem, next_submit, start_time,
                   query_count>>
    /\ UNCHANGED <<failures, otherThanExec>>

\* Mutant of ConcurrentReturn: the collection loop ends at the first future
\* yielded (as wait(..., FIRST_COMPLETED) would).
ConcurrentReturn_Early ==
    /\ mode = "concurrent" /\ pc = "collect"
    /\ yielded # {} \/ DOMAIN futures = {}
    /\ pc' = "returned"
    /\ UNCHANGED <<mode, queries, iterations, concurrency, duration_seconds, results,
                   now, invocations, qi, it, query_results, call_start, futures,
                   work_queue, threads, idle_sem, yielded, next_submit, start_time,
                   query_count>>
    /\ UNCHANGED <<failures, otherThanExec>>

\* as_completed is exhausted; the with-block ends (shutdown(wait=True));
\* return results.
ConcurrentReturn ==
    /\ mode = "concurrent" /\ pc = "collect"
    /\ yielded = DOMAIN futures
    /\ pc' = "returned"
    /\ UNCHANGED <<mode, queries, iterations, concurrency, duration_seconds, results,
                   now, invocations, qi, it, query_results, call_start, futures,
                   work_queue, threads, idle_sem, yielded, next_submit, start_time,
                   query_count>>
    /\ UNCHANGED <<failures, otherThanExec>>

\* ------------------------------------------------------- test_throughput
\* Mutant of ThroughputWhile: the loop is bounded by the number of queries
\* run, not by the time elapsed.
ThroughputWhile_CountBound ==
    /\ mode = "throughput" /\ pc = "while"
    /\ IF query_count < duration_seconds
       THEN /\ Len(results) < MaxSamples
            /\ BeginCall("call")
       ELSE /\ pc' = "returned"
            /\ UNCHANGED <<call_start, invocations>>
    /\ UNCHANGED <<mode, queries, iterations, concurrency, duration_seconds, results,
                   now, qi, it, query_results, futures, work_queue, threads,
                   idle_sem, yielded, next_submit, start_time, query_count>>
    /\ UNCHANGED <<failures, otherThanExec>>

\* while time.time() - start_time < duration_seconds: enter execute_query
ThroughputWhile ==
    /\ mode = "throughput" /\ pc = "while"
    /\ IF now - start_time < duration_seconds
       THEN /\ Len(results) < MaxSamples
            /\ BeginCall("call")
       ELSE /\ pc' = "returned"
            /\ UNCHANGED <<call_start, invocations>>
    /\ UNCHANGED <<mode, queries, iterations, concurrency, duration_seconds, results,
                   now, qi, it, query_results, futures, work_queue, threads,
                   idle_sem, yielded, next_submit, start_time, query_count>>
    /\ UNCHANGED <<failures, otherThanExec>>

\* Mutant of ThroughputCallEnds: the record of a query that ends after the
\* deadline is thrown away.
ThroughputCallEnds_DropLate ==
    /\ mode = "throughput" /\ pc = "call"
    /\ \E ok \in BOOLEAN :
         LET r == ExecuteQuery(queries[1], call_start, now, ok, query_count + 1)
         IN /\ failures' = failures + (IF ok THEN 0 ELSE 1)
            /\ IF now - start_time < duration_seconds
               THEN /\ results' = Append(results, r.value)
                    /\ query_count' = query_count + 1
               ELSE UNCHANGED <<results, query_count>>
            /\ pc' = "while"
    /\ UNCHANGED <<mode, queries, iterations, concurrency, duration_seconds, now,
                   invocations, qi, it, query_results, call_start, futures,
                   work_queue, threads, idle_sem, yielded, next_submit, start_time>>
    /\ UNCHANGED otherThanExec

\* execute_query returns; results.append(result); query_count += 1 (the
\* progress line logged every 10th query changes no state)
ThroughputCallEnds ==
    /\ mode = "throughput" /\ pc = "call"
    /\ \E ok \in BOOLEAN :
         LET r == ExecuteQuery(queries[1], call_start, now, ok, query_count + 1)
         IN /\ failures' = failures + (IF ok THEN 0 ELSE 1)
            /\ IF r.kind = "return"
               THEN /\ results' = Append(results, r.value)
                    /\ query_count' = query_count + 1
                    /\ pc' = "while"
               ELSE /\ pc' = "raised"
                    /\ UNCHANGED <<results, query_count>>
    /\ UNCHANGED <<mode, queries, iterations, concurrency, duration_seconds, now,
                   invocations, qi, it, query_results, call_start, futures,
                   work_queue, threads, idle_sem, yielded, next_submit, start_time>>
    /\ UNCHANGED otherThanExec

\* ------------------------------------------------------------------- Init
\* queries are distinct texts 1, 2, ...
QueryLists == {[i \in 1..n |-> i] : n \in 0..MaxQueries}

InitSingle ==
    /\ mode = "single" /\ pc = "outer"
    /\ queries \in QueryLists
    /\ iterations \in 0..MaxIterations
    /\ concurrency = 0 /\ duration_seconds = 0
    /\ futures = <<>>

InitConcurrent ==
    /\ mode = "concurrent" /\ pc = "submit"
    /\ queries \in QueryLists
    /\ concurrency \in 1..MaxWorkers
    /\ iterations = 0 /\ duration_seconds = 0
    /\ futures = [i \in 1..Len(queries) |-> Unsubmitted]

\* test_concurrent_queries alone with up to MaxPoolQueries queries, the
\* clock standing still
InitPool ==
    /\ mode = "concurrent" /\ pc = "submit"
    /\ queries \in {[i \in 1..n |-> i] : n \in 0..MaxPoolQueries}
    /\ concurrency \in 1..MaxWorkers
    /\ iterations = 0 /\ duration_seconds = 0
    /\ futures = [i \in 1..Len(queries) |-> Unsubmitted]
    /\ results = <<>>
    /\ now = 0
    /\ invocations = 0
    /\ failures = 0
    /\ qi = 1 /\ it = 0 /\ query_results = <<>>
    /\ call_start = 0
    /\ work_queue = <<>> /\ threads = 0 /\ idle_sem = 0
    /\ yielded = {} /\ next_submit = 1
    /\ start_time = 0 /\ query_count = 0

InitThroughput ==
    /\ mode = "throughput" /\ pc = "while"
    /\ queries = <<1>>
    /\ duration_seconds \in 0..MaxTime
    /\ iterations = 0 /\ concurrency = 0
    /\ futures = <<>>

InitExec ==
    /\ InitSingle \/ InitConcurrent \/ InitThroughput
    /\ results = <<>>
    /\ now = 0
    /\ invocations = 0
    /\ failures = 0
    /\ qi = 1 /\ it = 0 /\ query_results = <<>>
    /\ call_start = 0
    /\ work_queue = <<>> /\ threads = 0 /\ idle_sem = 0
    /\ yielded = {} /\ next_submit = 1
    /\ start_time = 0 /\ query_count = 0

\* ------------------------------------------------------------- rationals
\* A Python float result of a division, kept exact: [num, den] in lowest
\* terms with den > 0.
RECURSIVE GCD(_, _)
GCD(a, b) == IF b = 0 THEN a ELSE GCD(b, a % b)

Abs(a) == IF a < 0 THEN -a ELSE a

\* a / b for b # 0
Rat(a, b) ==
    LET g == GCD(Abs(a), Abs(b))
        sgn == IF b < 0 THEN -1 ELSE 1
    IN [num |-> sgn * (a \div g), den |-> Abs(b) \div g]

RatLeq(x, y) == x.num * y.den <= y.num * x.den

\* ------------------------------------------------------ _analyze_results
RECURSIVE SelectSuccess(_, _)
SelectSuccess(rs, want) ==
    IF rs = <<>> THEN <<>>
    ELSE IF Head(rs).success = want
         THEN <<Head(rs)>> \o SelectSuccess(Tail(rs), want)
         ELSE SelectSuccess(Tail(rs), want)

\* Mutant of SuccessfulResults: the filter `if r.success` is lost.
SuccessfulResults_NoFilter(rs) == rs

\* successful_results = [r for r in results if r.success]
SuccessfulResults(rs) == SelectSuccess(rs, TRUE)

\* Mutant of FailedResults: the filter `if not r.success` is lost.
FailedResults_NoFilter(rs) == rs

\* failed_results = [r for r in results if not r.success]
FailedResults(rs) == SelectSuccess(rs, FALSE)

RECURSIVE Sum(_)
Sum(ds) == IF ds = <<>> THEN 0 ELSE Head(ds) + Sum(Tail(ds))

RECURSIVE SumSq(_)
SumSq(ds) == IF ds = <<>> THEN 0 ELSE Head(ds) * Head(ds) + SumSq(Tail(ds))

\* Mutant of Sorted: the durations are taken in the order they arrived.
Sorted_Unsorted(ds) == ds

\* the ascending order min, max and statistics.median read the durations in
Sorted(ds) == SortSeq(ds, LAMBDA a, b : a < b)

\* min(durations), max(durations)
Min(ds) == Sorted(ds)[1]
Max(ds) == Sorted(ds)[Len(ds)]

\* statistics.mean
Mean(ds) == Rat(Sum(ds), Len(ds))

\* Mutant of Median: the two middle values are added and never halved.
Median_NoHalving(ds) ==
    LET n == Len(ds)
        srt == Sorted(ds)
    IN IF n % 2 = 1 THEN Rat(srt[(n + 1) \div 2], 1)
       ELSE Rat(srt[n \div 2] + srt[n \div 2 + 1], 1)

\* statistics.median: the middle value, or the mean of the two middle values
Median(ds) ==
    LET n == Len(ds)
        srt == Sorted(ds)
    IN IF n % 2 = 1 THEN Rat(srt[(n + 1) \div 2], 1)
       ELSE Rat(srt[n \div 2] + srt[n \div 2 + 1], 2)

\* statistics.stdev(durations) if len(durations) > 1 else 0, kept as its
\* square, the sample variance sum((x - mean)^2) / (n - 1)
StdevSquared(ds) ==
    LET n == Len(ds)
    IN IF n > 1 THEN Rat(n * SumSq(ds) - Sum(ds) * Sum(ds), n * (n - 1))
       ELSE Rat(0, 1)

NoResults == "no test results"       \* the marker of the empty list
AllFailed == "all tests failed"      \* the marker of a list without success

AnalyzeResults(rs) ==
    LET successful_results == SuccessfulResults(rs)
        failed_results == FailedResults(rs)
        durations == [n \in 1..Len(successful_results) |->
                         successful_results[n].duration]
    IN IF rs = <<>> THEN [error |-> NoResults]
       ELSE IF successful_results = <<>>
       THEN [total_tests |-> Len(rs),
             successful_tests |-> 0,
             failed_tests |-> Len(failed_results),
             error |-> AllFailed]
       ELSE [total_tests |-> Len(rs),
             successful_tests |-> Len(successful_results),
             failed_tests |-> Len(failed_results),
             success_rate |-> Rat(Len(successful_results), Len(rs)),
             duration_stats |-> [min |-> Min(durations),
                                 max |-> Max(durations),
                                 mean |-> Mean(durations),
                                 median |-> Median(durations),
                                 stdev |-> StdevSquared(durations)],
             throughput_qps |-> IF Sum(durations) > 0
                                THEN Rat(Len(successful_results), Sum(durations))
                                ELSE Rat(0, 1)]

\* The lists _analyze_results is given: records as execute_query makes them.
SampleValues ==
    {PerformanceResult(1, d, ok, IF ok THEN None ELSE Err,
                       IF ok THEN Rows ELSE None, 0) :
        d \in 0..MaxDuration, ok \in BOOLEAN}

SampleLists == UNION {[1..n -> SampleValues] : n \in 0..MaxLen}

InitAgg ==
    /\ agg_pc = "input"
    /\ samples \in SampleLists
    /\ analysis = <<>>

Analyze ==
    /\ agg_pc = "input"
    /\ analysis' = AnalyzeResults(samples)
    /\ agg_pc' = "done"
    /\ UNCHANGED <<samples, execVars, scrapeVars, clientVars, rateVars, runVars>>

\* =================================================== VectorPerformanceTest
\* Texts are sequences of characters; the characters used are "#", the
\* whitespace characters " " and tab, the digits, "v" (a metric-name
\* character) and "x" (a character no number has).
Digits == <<"0", "1", "2", "3", "4", "5", "6", "7", "8", "9">>

IsDigit(c) == \E d \in 1..10 : Digits[d] = c

DigitValue(c) == (CHOOSE d \in 1..10 : Digits[d] = c) - 1

\* str(n) for n >= 0
RECURSIVE ToDigits(_)
ToDigits(n) ==
    IF n < 10 THEN <<Digits[n + 1]>>
    ELSE ToDigits(n \div 10) \o <<Digits[(n % 10) + 1]>>

\* the key 'vector_events_processed_total'
CounterName == <<"v">>

\* the key "error" of a failed scrape
ErrorKey == <<"error">>

\* values of a metrics dict: a float, or a str
Num(n) == [kind |-> "num", val |-> n]
Text(cs) == [kind |-> "str", val |-> cs]

\* the characters str.strip() and float() drop: " " and tab
Whitespace == {" ", "\t"}

\* str.strip()
RECURSIVE LStrip(_)
LStrip(cs) ==
    IF cs # <<>> /\ Head(cs) \in Whitespace THEN LStrip(Tail(cs)) ELSE cs

RECURSIVE RStrip(_)
RStrip(cs) ==
    IF cs # <<>> /\ cs[Len(cs)] \in Whitespace
    THEN RStrip(SubSeq(cs, 1, Len(cs) - 1))
    ELSE cs

Strip(cs) == RStrip(LStrip(cs))

\* float(value) succeeds: surrounding whitespace dropped, digits left (the
\* texts modelled hold no sign, point or exponent)
ParsesAsFloat(value) ==
    LET t == Strip(value)
    IN t # <<>> /\ \A n \in 1..Len(t) : IsDigit(t[n])

RECURSIVE DecimalValue(_)
DecimalValue(t) ==
    IF t = <<>> THEN 0
    ELSE 10 * DecimalValue(SubSeq(t, 1, Len(t) - 1)) + DigitValue(t[Len(t)])

\* float(value)
FloatOf(value) == DecimalValue(Strip(value))

\* Mutant of FirstSpace: the line is split at its last " ".
FirstSpace_Last(line) ==
    IF \E n \in 1..Len(line) : line[n] = " "
    THEN CHOOSE n \in 1..Len(line) :
            line[n] = " " /\ \A k \in (n + 1)..Len(line) : line[k] # " "
    ELSE 0

\* index of the first " " of a line, 0 if there is none
FirstSpace(line) ==
    IF \E n \in 1..Len(line) : line[n] = " "
    THEN CHOOSE n \in 1..Len(line) :
            line[n] = " " /\ \A k \in 1..(n - 1) : line[k] # " "
    ELSE 0

\* dict assignment metrics[name] = value
DictSet(metrics, name, value) == (name :> value) @@ metrics

\* the body of the for loop of _parse_metrics for one line
ParseLine(metrics, line) ==
    IF (line # <<>> /\ Head(line) = "#") \/ Strip(line) = <<>>
    THEN metrics
    ELSE IF FirstSpace(line) > 0
    THEN LET name == SubSeq(line, 1, FirstSpace(line) - 1)
             value == SubSeq(line, FirstSpace(line) + 1, Len(line))
         IN IF ParsesAsFloat(value)
            THEN DictSet(metrics, name, Num(FloatOf(value)))
            ELSE DictSet(metrics, name, Text(value))
    ELSE metrics

\* _parse_metrics over metrics_text.split('\n')
RECURSIVE ParseLines(_, _)
ParseLines(metrics, lines) ==
    IF lines = <<>> THEN metrics
    ELSE ParseLines(ParseLine(metrics, Head(lines)), Tail(lines))

ParseMetrics(lines) == ParseLines(<<>>, lines)

\* Mutant of GetMetrics: the status code is not looked at.
GetMetrics_IgnoreStatus(resp) ==
    IF resp.kind = "exception" THEN (ErrorKey :> Text(<<"exception">>))
    ELSE ParseMetrics(resp.text)

\* get_metrics: what requests.get did is the input
GetMetrics(resp) ==
    IF resp.kind = "exception" THEN (ErrorKey :> Text(<<"exception">>))
    ELSE IF resp.status_code = 200 THEN ParseMetrics(resp.text)
    ELSE (ErrorKey :> Text(<<"HTTP">>))

\* final.get('vector_events_processed_total', 0)
GetCounter(snapshot) ==
    IF CounterName \in DOMAIN snapshot THEN snapshot[CounterName] ELSE Num(0)

\* Mutant of Processed: the operands of the difference are exchanged.
Processed_Swapped(final, initial) ==
    IF GetCounter(final).kind = "num" /\ GetCounter(initial).kind = "num"
    THEN [kind |-> "return", value |-> GetCounter(initial).val - GetCounter(final).val]
    ELSE [kind |-> "raise", value |-> 0]

\* final.get(...) - initial.get(...): a number, or the TypeError of a str operand
Processed(final, initial) ==
    IF GetCounter(final).kind = "num" /\ GetCounter(initial).kind = "num"
    THEN [kind |-> "return", value |-> GetCounter(final).val - GetCounter(initial).val]
    ELSE [kind |-> "raise", value |-> 0]

\* the dict test_log_processing_rate returns
RateResult(duration, edge_processed, agg_processed) ==
    [duration_seconds |-> duration,
     edge_events_processed |-> edge_processed,
     agg_events_processed |-> agg_processed,
     edge_events_per_second |-> Rat(edge_processed, duration),
     agg_events_per_second |-> Rat(agg_processed, duration)]

\* The exposition texts an endpoint answers with, as lines: a comment, then
\* the counter with a number, the counter with a value that is no number, or
\* no counter, then the empty line after the last newline.
CounterLine(n) == CounterName \o <<" ">> \o ToDigits(n)
TextLine == CounterName \o <<" ", "x">>
CommentLine == <<"#", " ", "v">>

Bodies ==
    {<<CommentLine, CounterLine(n), <<>>>> : n \in 0..MaxCounter}
    \cup {<<CommentLine, TextLine, <<>>>>, <<CommentLine, <<>>>>}

\* what requests.get can do: raise, or answer with a status and a text
Raises == [kind |-> "exception", status_code |-> 0, text |-> <<>>]
Answers(status_code, text) ==
    [kind |-> "response", status_code |-> status_code, text |-> text]

\* Inside a whole run (SpecRun) four of them are drawn: the request raises,
\* or is answered 200 with the counter at 1, as a text, or missing.
Responses ==
    IF run_pc = "idle"
    THEN {Raises, Answers(500, <<>>)} \cup {Answers(200, b) : b \in Bodies}
    ELSE {Raises,
          Answers(200, <<CommentLine, CounterLine(1), <<>>>>),
          Answers(200, <<CommentLine, TextLine, <<>>>>),
          Answers(200, <<CommentLine, <<>>>>)}

\* get_metrics alone, on texts spelt out character by character: a first
\* line of up to MaxLineLen characters, alone or followed by a second line
\* (the counter with a text value, or the empty line after a last newline),
\* answered with status 200 or 500.
Chars == {"#", " ", "\t", "v", "1"}

Lines == UNION {[1..n -> Chars] : n \in 0..MaxLineLen}

Texts == {<<l>> : l \in Lines} \cup {<<l, t>> : l \in Lines, t \in {TextLine, <<>>}}

InitScrape ==
    /\ scrape_pc = "request"
    /\ response \in {Raises} \cup {Answers(st, t) : st \in {200, 500}, t \in Texts}
    /\ metrics_snapshot = <<>>

\* return of get_metrics
Scrape ==
    /\ scrape_pc = "request"
    /\ metrics_snapshot' = GetMetrics(response)
    /\ scrape_pc' = "returned"
    /\ UNCHANGED <<response, execVars, aggVars, rateVars, runVars, clientVars>>

NextSlot(slot) ==
    CASE slot = "initial_edge" -> "initial_agg"
      [] slot = "initial_agg" -> "sleep"
      [] slot = "final_edge" -> "final_agg"
      [] slot = "final_agg" -> "compute"

\* self.test_edge_performance() / self.test_aggregator_performance() of
\* test_log_processing_rate, in the order of the code
RateScrape ==
    /\ rate_pc \in {"initial_edge", "initial_agg", "final_edge", "final_agg"}
    /\ \E resp \in Responses :
         /\ initial_edge' = IF rate_pc = "initial_edge" THEN GetMetrics(resp)
                            ELSE initial_edge
         /\ initial_agg' = IF rate_pc = "initial_agg" THEN GetMetrics(resp)
                           ELSE initial_agg
         /\ final_edge' = IF rate_pc = "final_edge" THEN GetMetrics(resp)
                          ELSE final_edge
         /\ final_agg' = IF rate_pc = "final_agg" THEN GetMetrics(resp)
                         ELSE final_agg
    /\ rate_pc' = NextSlot(rate_pc)
    /\ UNCHANGED <<rate_duration, rate_result, execVars, scrapeVars, clientVars, aggVars, runVars>>

\* time.sleep(duration_seconds)
RateSleep ==
    /\ rate_pc = "sleep"
    /\ rate_pc' = "final_edge"
    /\ UNCHANGED <<rate_duration, initial_edge, initial_agg, final_edge, final_agg,
                   rate_result, execVars, scrapeVars, clientVars, aggVars, runVars>>

\* the two differences and the returned dict; a TypeError leaves the method
RateCompute ==
    /\ rate_pc = "compute"
    /\ LET edge == Processed(final_edge, initial_edge)
           agg == Processed(final_agg, initial_agg)
       IN IF edge.kind = "return" /\ agg.kind = "return"
          THEN /\ rate_result' = RateResult(rate_duration, edge.value, agg.value)
               /\ rate_pc' = "returned"
          ELSE /\ rate_pc' = "raised"
               /\ UNCHANGED rate_result
    /\ UNCHANGED <<rate_duration, initial_edge, initial_agg, final_edge, final_agg,
                   execVars, scrapeVars, clientVars, aggVars, runVars>>

NoSnapshot == <<>>

InitRate ==
    /\ rate_pc = "initial_edge"
    /\ rate_duration \in 1..MaxWindow
    /\ initial_edge = NoSnapshot /\ initial_agg = NoSnapshot
    /\ final_edge = NoSnapshot /\ final_agg = NoSnapshot
    /\ rate_result = <<>>

\* ================================================= SystemPerformanceTest
\* What the three modes hand back inside a run: a list without a success, a
\* mixed list, a list of successes.
RunFailure == PerformanceResult(1, 1, FALSE, Err, None, 0)
RunSuccess == PerformanceResult(1, 1, TRUE, None, Rows, 0)
RunLists == {<<RunFailure, RunFailure>>, <<RunFailure, RunSuccess>>,
             <<RunSuccess, RunSuccess>>}

\* test_log_processing_rate(30)
RateWindow == 30

\* _get_system_resources
ResourceUsage == [cpu_usage |-> "N/A", memory_usage |-> "N/A", disk_usage |-> "N/A"]

EmptyDict == <<>>

\* results = {"timestamp": ..., "datafusion": {}, "vector": {}, "system": {}}
RunStart ==
    /\ run_pc = "start"
    /\ run_results' = [datafusion |-> EmptyDict, vector |-> EmptyDict,
                       system |-> EmptyDict]
    /\ run_pc' = "connect"
    /\ UNCHANGED <<connected, report, printed, saved, execVars, scrapeVars, clientVars, aggVars, rateVars>>

\* Mutant of AfterConnect: the result of connect() is not tested.
AfterConnect_Ignored(ok) == "single_query"

\* if self.datafusion_test.connect(): the sub-tests, else on to Vector
AfterConnect(ok) == IF ok THEN "single_query" ELSE "edge_metrics"

\* connect() returns True, or False when fl.connect raises
RunConnect ==
    /\ run_pc = "connect"
    /\ \E ok \in BOOLEAN :
         /\ connected' = ok
         /\ run_pc' = AfterConnect(ok)
    /\ UNCHANGED <<run_results, report, printed, saved, execVars, scrapeVars, clientVars, aggVars, rateVars>>

\* Mutant of AfterSubTest: the throughput test is run before the concurrent
\* test.
AfterSubTest_Swapped(name) ==
    CASE name = "single_query" -> "throughput"
      [] name = "throughput" -> "concurrent_query"
      [] name = "concurrent_query" -> "edge_metrics"

\* the order of the three sub-test statements
AfterSubTest(name) ==
    CASE name = "single_query" -> "concurrent_query"
      [] name = "concurrent_query" -> "throughput"
      [] name = "throughput" -> "edge_metrics"

\* results["datafusion"][name] = self._analyze_results(<what the mode returned>)
RunSubTest ==
    /\ run_pc \in {"single_query", "concurrent_query", "throughput"}
    /\ \E list \in RunLists :
         run_results' = [run_results EXCEPT
                            !.datafusion = DictSet(@, run_pc, AnalyzeResults(list))]
    /\ run_pc' = AfterSubTest(run_pc)
    /\ UNCHANGED <<connected, report, printed, saved, execVars, scrapeVars, clientVars, aggVars, rateVars>>

\* results["vector"]["edge_metrics"] = self.vector_test.test_edge_performance()
\* results["vector"]["agg_metrics"] = ...test_aggregator_performance()
RunScrape ==
    /\ run_pc \in {"edge_metrics", "agg_metrics"}
    /\ \E resp \in Responses :
         run_results' = [run_results EXCEPT
                            !.vector = DictSet(@, run_pc, GetMetrics(resp))]
    /\ run_pc' = IF run_pc = "edge_metrics" THEN "agg_metrics" ELSE "processing_rate"
    /\ UNCHANGED <<connected, report, printed, saved, execVars, scrapeVars, clientVars, aggVars, rateVars>>

\* self.vector_test.test_log_processing_rate(30) is entered
RunRateCall ==
    /\ run_pc = "processing_rate" /\ rate_pc = "idle"
    /\ rate_pc' = "initial_edge"
    /\ rate_duration' = RateWindow
    /\ UNCHANGED <<initial_edge, initial_agg, final_edge, final_agg, rate_result,
                   runVars, execVars, scrapeVars, clientVars, aggVars>>

\* it returns and results["vector"]["processing_rate"] is set, or its
\* exception leaves run_comprehensive_test and main
RunRateEnds ==
    /\ run_pc = "processing_rate" /\ rate_pc \in {"returned", "raised"}
    /\ IF rate_pc = "returned"
       THEN /\ run_results' = [run_results EXCEPT
                                  !.vector = DictSet(@, "processing_rate", rate_result)]
            /\ run_pc' = "resource_usage"
       ELSE /\ run_pc' = "raised"
            /\ UNCHANGED run_results
    /\ UNCHANGED <<connected, report, printed, saved, execVars, scrapeVars, clientVars, aggVars, rateVars>>

\* results["system"]["resource_usage"] = self._get_system_resources(); return
RunResources ==
    /\ run_pc = "resource_usage"
    /\ run_results' = [run_results EXCEPT
                          !.system = DictSet(@, "resource_usage", ResourceUsage)]
    /\ run_pc' = "generate_report"
    /\ UNCHANGED <<connected, report, printed, saved, execVars, scrapeVars, clientVars, aggVars, rateVars>>

\* Mutant of ReportDataFusion: an entry with an error is given no line.
ReportDataFusion_ErrorDropped(test_results) ==
    IF "error" \in DOMAIN test_results
    THEN EmptyDict
    ELSE [total_tests |-> test_results.total_tests,
          success_rate |-> test_results.success_rate,
          latency |-> IF "duration_stats" \in DOMAIN test_results
                      THEN <<test_results.duration_stats.mean,
                             test_results.duration_stats.median,
                             test_results.duration_stats.max>>
                      ELSE <<>>,
          throughput |-> IF "throughput_qps" \in DOMAIN test_results
                         THEN <<test_results.throughput_qps>>
                         ELSE <<>>]

\* the lines generate_report writes for one entry of results["datafusion"]
ReportDataFusion(test_results) ==
    IF "error" \in DOMAIN test_results
    THEN [error |-> test_results.error]
    ELSE [total_tests |-> test_results.total_tests,
          success_rate |-> test_results.success_rate,
          latency |-> IF "duration_stats" \in DOMAIN test_results
                      THEN <<test_results.duration_stats.mean,
                             test_results.duration_stats.median,
                             test_results.duration_stats.max>>
                      ELSE <<>>,
          throughput |-> IF "throughput_qps" \in DOMAIN test_results
                         THEN <<test_results.throughput_qps>>
                         ELSE <<>>]

\* generate_report: a block per section, the entries of a section in turn
GenerateReport(res) ==
    [datafusion |-> [t \in DOMAIN res.datafusion |->
                        ReportDataFusion(res.datafusion[t])],
     vector |-> res.vector,
     system |-> IF "resource_usage" \in DOMAIN res.system
                THEN res.system["resource_usage"] ELSE EmptyDict]

\* report = system_test.generate_report(results)
MainReport ==
    /\ run_pc = "generate_report"
    /\ report' = GenerateReport(run_results)
    /\ run_pc' = "print"
    /\ UNCHANGED <<connected, run_results, printed, saved, execVars, scrapeVars, clientVars, aggVars,
                   rateVars>>

\* print(report)
MainPrint ==
    /\ run_pc = "print"
    /\ printed' = TRUE
    /\ run_pc' = "save"
    /\ UNCHANGED <<connected, run_results, report, saved, execVars, scrapeVars, clientVars, aggVars,
                   rateVars>>

\* system_test.save_results(results)
MainSave ==
    /\ run_pc = "save"
    /\ saved' = TRUE
    /\ run_pc' = "plot"
    /\ UNCHANGED <<connected, run_results, report, printed, execVars, scrapeVars, clientVars, aggVars,
                   rateVars>>

\* system_test.plot_results(results); main ends
MainPlot ==
    /\ run_pc = "plot"
    /\ run_pc' = "done"
    /\ UNCHANGED <<connected, run_results, report, printed, saved, execVars, scrapeVars, clientVars,
                   aggVars, rateVars>>

\* generate_report alone, on the dicts run_comprehensive_test builds and on
\* dicts with a sub-test whose list of records was empty: the datafusion
\* section is empty or holds _analyze_results of a list for each sub-test.
SubTests == {"single_query", "concurrent_query", "throughput"}

ReportLists == RunLists \cup {<<>>}

DataFusionSections ==
    {EmptyDict}
    \cup {[t \in SubTests |-> AnalyzeResults(f[t])] : f \in [SubTests -> ReportLists]}

ScrapedForReport == {Raises, Answers(200, <<CounterLine(1), <<>>>>)}

VectorSections ==
    {DictSet(DictSet(DictSet(EmptyDict, "edge_metrics", GetMetrics(a)),
                     "agg_metrics", GetMetrics(b)),
             "processing_rate", RateResult(RateWindow, 0, 0)) :
        a \in ScrapedForReport, b \in ScrapedForReport}

InitReport ==
    /\ run_pc = "generate_report"
    /\ run_results \in
          {[datafusion |-> d, vector |-> v,
            system |-> DictSet(EmptyDict, "resource_usage", ResourceUsage)] :
              d \in DataFusionSections, v \in VectorSections}
    /\ connected = (DOMAIN run_results.datafusion # {})
    /\ report = <<>>
    /\ printed = FALSE
    /\ saved = FALSE

InitRun ==
    /\ run_pc = "start"
    /\ connected = FALSE
    /\ run_results = <<>>
    /\ report = <<>>
    /\ printed = FALSE
    /\ saved = FALSE

\* ========================================================= DataFusionClient
FlightClient == "FlightClient"          \* what fl.connect returns
NotConnected == "client not connected"  \* RuntimeError("客户端未连接")
Table == "table"                        \* what reader.read_all() returns

\* Mutant of ClientExecuteQuery: the except branch logs the error and does
\* not raise it again.
ClientExecuteQuery_Swallows(conn, answer) ==
    IF conn = None
    THEN [kind |-> "raise", value |-> NotConnected, requests |-> 0]
    ELSE IF answer = "ok"
    THEN [kind |-> "return", value |-> Table, requests |-> 1]
    ELSE [kind |-> "return", value |-> None, requests |-> 1]

\* DataFusionClient.execute_query with self.client = conn, the service
\* answering the request, if one is issued, with `answer`
ClientExecuteQuery(conn, answer) ==
    IF conn = None
    THEN [kind |-> "raise", value |-> NotConnected, requests |-> 0]
    ELSE IF answer = "ok"
    THEN [kind |-> "return", value |-> Table, requests |-> 1]
    ELSE [kind |-> "raise", value |-> Err, requests |-> 1]

NoCallYet == [kind |-> "none", value |-> None, requests |-> 0]

NoSample == PerformanceResult(0, 0, FALSE, None, None, 0)

InitClient ==
    /\ client_pc = "new"
    /\ client = None
    /\ client_calls = 0 /\ client_requests = 0
    /\ client_answer = "none"
    /\ client_rejections = 0 /\ client_raised = 0
    /\ client_result = NoCallYet
    /\ timer_sample = NoSample

\* connect(): self.client is set and True returned, or fl.connect raises and
\* False is returned
ClientConnect ==
    /\ client_pc = "new"
    /\ \E ok \in BOOLEAN : client' = IF ok THEN FlightClient ELSE None
    /\ client_pc' = "ready"
    /\ UNCHANGED <<client_calls, client_requests, client_answer, client_rejections,
                   client_raised, client_result, timer_sample>>
    /\ UNCHANGED <<execVars, aggVars, rateVars, runVars, scrapeVars>>

\* One call of execute_query(sql); the timer's execute_query, given the same
\* answer of the service, makes its record of it.
ClientCall ==
    /\ client_pc \in {"new", "ready"}
    /\ client_calls < MaxCalls
    /\ \E sql \in 1..MaxQueries, answer \in {"ok", "rejected"} :
         LET out == ClientExecuteQuery(client, answer)
         IN /\ client_result' = out
            /\ client_requests' = client_requests + out.requests
            /\ client_answer' = IF out.requests = 0 THEN "none" ELSE answer
            /\ client_rejections' =
                  client_rejections
                     + (IF out.requests = 1 /\ answer = "rejected" THEN 1 ELSE 0)
            /\ client_raised' = client_raised + (IF out.kind = "raise" THEN 1 ELSE 0)
            /\ timer_sample' =
                  IF out.requests = 0 THEN timer_sample
                  ELSE ExecuteQuery(sql, 0, 0, answer = "ok", client_calls + 1).value
    /\ client_calls' = client_calls + 1
    /\ UNCHANGED <<client_pc, client>>
    /\ UNCHANGED <<execVars, aggVars, rateVars, runVars, scrapeVars>>

\* ========================================================= specifications
IdleExec ==
    /\ mode = "idle" /\ pc = "idle"
    /\ queries = <<>> /\ iterations = 0 /\ concurrency = 0 /\ duration_seconds = 0
    /\ results = <<>> /\ now = 0 /\ invocations = 0 /\ failures = 0
    /\ qi = 1 /\ it = 0 /\ query_results = <<>> /\ call_start = 0
    /\ futures = <<>> /\ work_queue = <<>> /\ threads = 0 /\ idle_sem = 0
    /\ yielded = {} /\ next_submit = 1 /\ start_time = 0 /\ query_count = 0

IdleAgg == agg_pc = "idle" /\ samples = <<>> /\ analysis = <<>>

IdleRate ==
    /\ rate_pc = "idle"
    /\ rate_duration = 0
    /\ initial_edge = NoSnapshot /\ initial_agg = NoSnapshot
    /\ final_edge = NoSnapshot /\ final_agg = NoSnapshot
    /\ rate_result = <<>>

IdleScrape ==
    scrape_pc = "idle" /\ response = Raises /\ metrics_snapshot = <<>>

IdleClient ==
    /\ client_pc = "idle"
    /\ client = None
    /\ client_calls = 0 /\ client_requests = 0
    /\ client_answer = "none"
    /\ client_rejections = 0 /\ client_raised = 0
    /\ client_result = NoCallYet
    /\ timer_sample = NoSample

IdleRun ==
    /\ run_pc = "idle"
    /\ connected = FALSE
    /\ run_results = <<>>
    /\ report = <<>>
    /\ printed = FALSE
    /\ saved = FALSE

Init == InitExec /\ IdleAgg /\ IdleRate /\ IdleRun /\ IdleScrape /\ IdleClient

Next ==
    \/ Tick
    \/ SingleOuter \/ SingleInner \/ SingleCallEnds \/ SingleSleep
    \/ Submit \/ WorkerStart \/ WorkerFinish \/ Collect \/ ConcurrentReturn
    \/ ThroughputWhile \/ ThroughputCallEnds

Spec == Init /\ [][Next]_vars

\* test_concurrent_queries alone, with the scheduling the interpreter gives:
\* the calling thread and every worker thread keep being scheduled, and every
\* query issued ends (returns or raises).
InitConc == Init /\ mode = "concurrent"

NextConc ==
    \/ Tick
    \/ Submit \/ WorkerStart \/ WorkerFinish \/ Collect \/ ConcurrentReturn

SpecConc ==
    /\ InitConc /\ [][NextConc]_vars
    /\ WF_vars(Submit) /\ WF_vars(WorkerStart) /\ WF_vars(WorkerFinish)
    /\ WF_vars(Collect) /\ WF_vars(ConcurrentReturn)

\* the worker pool of test_concurrent_queries with longer lists of queries
InitPoolOnly ==
    InitPool /\ IdleAgg /\ IdleRate /\ IdleRun /\ IdleScrape /\ IdleClient

NextPool == Submit \/ WorkerStart \/ WorkerFinish \/ Collect \/ ConcurrentReturn

SpecPool == InitPoolOnly /\ [][NextPool]_vars

\* _analyze_results applied to each list of SampleLists
InitAggOnly == IdleExec /\ InitAgg /\ IdleRate /\ IdleRun /\ IdleScrape /\ IdleClient

SpecAgg == InitAggOnly /\ [][Analyze]_vars

\* test_log_processing_rate called with each duration and each response
NextRate == RateScrape \/ RateSleep \/ RateCompute

InitRateOnly == IdleExec /\ IdleAgg /\ InitRate /\ IdleRun /\ IdleScrape /\ IdleClient

SpecRate == InitRateOnly /\ [][NextRate]_vars

\* main(): one whole run
InitRunOnly == IdleExec /\ IdleAgg /\ IdleRate /\ InitRun /\ IdleScrape /\ IdleClient

\* get_metrics called on each response
InitScrapeOnly == IdleExec /\ IdleAgg /\ IdleRate /\ IdleRun /\ InitScrape /\ IdleClient

SpecScrape == InitScrapeOnly /\ [][Scrape]_vars

NextRun ==
    \/ RunStart \/ RunConnect \/ RunSubTest \/ RunScrape
    \/ RunRateCall \/ RateScrape \/ RateSleep \/ RateCompute \/ RunRateEnds
    \/ RunResources \/ MainReport \/ MainPrint \/ MainSave \/ MainPlot

SpecRun == InitRunOnly /\ [][NextRun]_vars

\* generate_report called on each dict of InitReport
InitReportOnly == IdleExec /\ IdleAgg /\ IdleRate /\ InitReport /\ IdleScrape /\ IdleClient

SpecReport == InitReportOnly /\ [][MainReport]_vars

\* DataFusionClient: connect() and calls of execute_query in any order
InitClientOnly ==
    IdleExec /\ IdleAgg /\ IdleRate /\ IdleRun /\ IdleScrape /\ InitClient

NextClient == ClientConnect \/ ClientCall

SpecClient == InitClientOnly /\ [][NextClient]_vars

\* ================================================================= claims
Returned(m) == mode = m /\ pc = "returned"

\* the records of `results` made for invocation or future i
SamplesOf(i) == {n \in 1..Len(results) : results[n].src = i}

\* every record the run holds: appended, in the inner list, or in a future
Recorded ==
    {results[n] : n \in 1..Len(results)}
    \cup {query_results[n] : n \in 1..Len(query_results)}
    \cup {CollectedSample(i) : i \in {j \in DOMAIN futures :
                                        futures[j].state = "finished"}}

\* C1: test_concurrent_queries called with N queries and a concurrency limit
\* k >= 1 returns a list of exactly N records, whatever k is and whichever
\* queries fail (all of them included).
C1_ConcurrentReturnsN == Returned("concurrent") => Len(results) = Len(queries)

\* C1 witness: the call has returned for N = MaxQueries queries that all failed,
\* under a limit k < N.
C1_Witness ==
    /\ Returned("concurrent")
    /\ Len(queries) = MaxQueries /\ concurrency < Len(queries)
    /\ Len(results) = MaxQueries
    /\ \A n \in 1..Len(results) : ~results[n].success

\* C2: in test_concurrent_queries, with every query ending, every submitted
\* query eventually has exactly one record in `results`, and keeps exactly one.
C2_EachOnce == <>[](\A i \in 1..Len(queries) : Cardinality(SamplesOf(i)) = 1)

\* C2 witness: two queries ran, the second submitted finished and was recorded
\* first, and each has exactly one record.
C2_Witness ==
    /\ Returned("concurrent") /\ Len(queries) >= 2
    /\ results[1].src = 2
    /\ \A i \in 1..Len(queries) : Cardinality(SamplesOf(i)) = 1

\* C3: in test_concurrent_queries the number of queries that have started and
\* not finished never exceeds the limit k.
C3_AtMostKInFlight == mode = "concurrent" => Cardinality(InFlight) <= concurrency

\* C3 witness: k queries are in flight while another one waits in the queue.
C3_Witness ==
    /\ mode = "concurrent"
    /\ Cardinality(InFlight) = concurrency
    /\ work_queue # <<>>

C14_SequentialOrder ==
    Returned("single") =>
        /\ Len(results) = Len(queries) * iterations
        /\ invocations = Len(queries) * iterations
        /\ \A n \in 1..Len(results) :
              /\ results[n].src = n
              /\ results[n].operation = queries[((n - 1) \div iterations) + 1]
        /\ \A q \in 1..Len(queries) :
              Cardinality({n \in 1..Len(results) :
                              results[n].operation = queries[q]}) = iterations

\* C14 witness: the call has returned for MaxQueries queries repeated
\* MaxIterations times, the first run having failed and the last succeeded.
C14_Witness ==
    /\ Returned("single")
    /\ Len(queries) = MaxQueries /\ iterations = MaxIterations
    /\ Len(results) = MaxQueries * MaxIterations
    /\ ~results[1].success /\ results[Len(results)].success

Elapsed == now - start_time

\* C15: test_throughput called with a duration T does not return while the
\* time elapsed since its start is below T.
C15_NoEarlyReturn == Returned("throughput") => Elapsed >= duration_seconds

\* C15 witness: the loop has returned for T = MaxTime after running queries.
C15_Witness ==
    /\ Returned("throughput") /\ duration_seconds = MaxTime
    /\ Len(results) >= 2

\* C16: the throughput loop looks at the time elapsed only before it starts a
\* query: a query starts only while the time elapsed is below T, and a query
\* that has started runs to its end, whenever that is, and its record, timed
\* to that end, is appended.
C16_CheckedBeforeEachStart ==
    [][mode = "throughput" =>
          /\ invocations' # invocations =>
                Elapsed < duration_seconds /\ call_start' = now
          /\ pc = "call" /\ pc' # "call" =>
                /\ Len(results') = Len(results) + 1
                /\ results'[Len(results')].duration = now - call_start
                /\ SubSeq(results', 1, Len(results)) = results]_vars

\* C16 witness: the loop has returned and its last record is of a query that
\* started before the deadline and ended after it.
C16_Witness ==
    /\ Returned("throughput") /\ results # <<>>
    /\ call_start - start_time < duration_seconds
    /\ call_start + results[Len(results)].duration - start_time > duration_seconds

\* The requests under way and the records made so far, one per invocation
\* index.
RequestsUnderWay ==
    IF mode = "concurrent" THEN Cardinality(InFlight)
    ELSE IF pc = "call" THEN 1 ELSE 0

RecordsMade == Cardinality({r.src : r \in Recorded})

\* C20: execute_query issues the request exactly once per call, on the
\* success path and on the failure path: at every moment the number of
\* requests issued is the number of records made plus the requests under way,
\* and a mode that has returned holds as many records as requests were issued.
C20_OneRequestPerRecord ==
    /\ mode # "idle" => invocations = RecordsMade + RequestsUnderWay
    /\ pc = "returned" => invocations = Len(results)

\* C20 witness: a mode has returned after requests that failed and requests
\* that succeeded.
C20_Witness ==
    /\ pc = "returned" /\ invocations >= 2
    /\ failures >= 1 /\ failures < invocations

\* a record carries an error description exactly when it is a failure
ErrorIffFailure(r) == (r.error # None) <=> ~r.success

\* C21: in every mode, every record made carries an error description if and
\* only if it is a failure and has a duration >= 0; the record a call of the
\* calling thread ends with, and the record a worker's call ends with, has
\* the duration end - start of that call, whether it failed or not.
C21_ErrorAndDuration ==
    /\ [](\A r \in Recorded : ErrorIffFailure(r) /\ r.duration >= 0)
    /\ [][/\ (mode = "single" /\ pc = "call" /\ pc' # "call") =>
              query_results'[Len(query_results')].duration = now - call_start
          /\ (mode = "throughput" /\ pc = "call" /\ pc' # "call") =>
              results'[Len(results')].duration = now - call_start
          /\ mode = "concurrent" =>
              \A i \in InFlight :
                  futures'[i].state = "finished" =>
                      futures'[i].outcome.value.duration = now - futures[i].startT
         ]_vars

\* C21 witness: the concurrent mode has returned a failure that took time
\* and carries its error description, next to a success that carries none.
C21_Witness ==
    /\ Returned("concurrent")
    /\ \E a, b \in 1..Len(results) :
         /\ ~results[a].success /\ results[a].duration > 0
         /\ results[a].error = Err
         /\ results[b].success /\ results[b].error = None

SingleStream == mode \in {"single", "throughput"}

\* C23: the sequential mode and the throughput loop are single-stream: at
\* most one request is issued and not yet recorded, exactly while the calling
\* thread is inside execute_query, and a request is issued only when every
\* request before it has its record; two requests under way at once are met
\* in the concurrent mode only.
C23_SingleStream ==
    /\ [](SingleStream =>
             /\ invocations - RecordsMade \in {0, 1}
             /\ invocations - RecordsMade = 1 <=> pc = "call")
    /\ [][SingleStream /\ invocations' # invocations =>
             invocations = RecordsMade /\ invocations' = invocations + 1]_vars

\* C23 witness: the throughput loop is inside its third call, the two calls
\* before it having their records.
C23_Witness ==
    /\ mode = "throughput" /\ pc = "call"
    /\ Len(results) = 2 /\ invocations = 3

\* C24 as claimed: when the record of a future A is collected, every future B
\* whose record comes after it has not finished yet.
C24_AsClaimed ==
    [][mode = "concurrent" =>
          \A a \in yielded' \ yielded :
              \A b \in DOMAIN futures \ yielded' :
                  futures[b].state # "finished"]_vars

\* C24 amended: the returned list is in the order in which the calling
\* thread collected the futures: each step of the collection appends, behind
\* the records it has, the record of one future that has finished and was not
\* collected before; so the future of an earlier record had finished before
\* the record after it was collected, while futures that have both finished
\* come in either order, and the order need not be that of submission.
C24_CollectionOrder ==
    /\ [](mode = "concurrent" =>
             /\ Len(results) = Cardinality(yielded)
             /\ \A n \in 1..Len(results) :
                   /\ results[n].src \in yielded
                   /\ futures[results[n].src].state = "finished")
    /\ [][mode = "concurrent" /\ results' # results =>
             \E i \in DOMAIN futures :
                 /\ futures[i].state = "finished" /\ i \notin yielded
                 /\ yielded' = yielded \cup {i}
                 /\ results' = Append(results, futures[i].outcome.value)]_vars

\* C24 witness: the call has returned the record of the second query in
\* front of the record of the first.
C24_Witness ==
    /\ Returned("concurrent") /\ Len(results) = 2
    /\ results[1].src = 2 /\ results[2].src = 1

\* C25: the pool is work-conserving: whenever a work item is queued and fewer
\* than k are running, a worker is free to start the head of the queue; in
\* particular after a work item has ended, whatever the other workers are
\* still running.
C25_WorkConserving ==
    (mode = "concurrent" /\ work_queue # <<>> /\ Cardinality(InFlight) < concurrency)
        => ENABLED WorkerStart

\* C25 witness: under k = 2 a third query runs next to the second while the
\* first has ended: the slot of the first was taken again before the second
\* ended.
C25_Witness ==
    /\ mode = "concurrent" /\ concurrency = 2 /\ Len(queries) = 3
    /\ futures[1].state = "finished"
    /\ futures[2].state = "running" /\ futures[3].state = "running"

\* C27: when the concurrent mode returns, no work item is queued or running,
\* every future has finished and has exactly one record in the list; and the
\* list changes only in a step of the calling thread's collection loop: a
\* step that changes a future (a worker's) leaves it alone.
C27_QuiescentAtReturn ==
    /\ [](Returned("concurrent") =>
             /\ InFlight = {} /\ work_queue = <<>>
             /\ \A i \in DOMAIN futures :
                   /\ futures[i].state = "finished"
                   /\ Cardinality(SamplesOf(i)) = 1)
    /\ [][mode = "concurrent" =>
             /\ results' # results => pc = "collect" /\ futures' = futures
             /\ futures' # futures => results' = results]_vars

\* C27 witness: the call has returned for MaxQueries queries run by
\* MaxWorkers workers, two of them at once at some moment (their times
\* overlap).
C27_Witness ==
    /\ Returned("concurrent")
    /\ Len(queries) = MaxQueries /\ concurrency = MaxWorkers
    /\ threads >= 2
    /\ \E a, b \in DOMAIN futures :
         /\ a # b
         /\ futures[a].startT < futures[b].startT
         /\ futures[b].startT < futures[a].startT + futures[a].outcome.value.duration

\* ------------------------------------------------------- the aggregator
Analyzed == agg_pc = "done"

NoSuccess == \A n \in 1..Len(samples) : ~samples[n].success

Fields == DOMAIN analysis

\* C9 as claimed: for a list without a success (the empty list included) the
\* output has no latency field and reports a success rate equal to 0.
C9_AsClaimed ==
    Analyzed /\ NoSuccess =>
        /\ "duration_stats" \notin Fields
        /\ "success_rate" \in Fields
        /\ analysis.success_rate = Rat(0, 1)

\* C9 amended: for a list without a success the output has no latency field
\* and no throughput, carries the error marker and has no success-rate field;
\* for a non-empty list it reports 0 successful tests, for the empty list it
\* holds the marker alone.
C9_NoLatencyNoRate ==
    Analyzed /\ NoSuccess =>
        /\ Fields \cap {"duration_stats", "throughput_qps", "success_rate"} = {}
        /\ "error" \in Fields
        /\ samples # <<>> => analysis.successful_tests = 0
        /\ samples = <<>> => Fields = {"error"}

\* C9 witness: a list of MaxLen failures has been analysed.
C9_Witness ==
    /\ Analyzed /\ NoSuccess /\ Len(samples) = MaxLen
    /\ analysis.error = AllFailed

\* C10 as claimed: for any list, the empty one included, the output reports
\* the three counts, total = success + failure = length of the list, and
\* carries the marker when there is no success.
C10_AsClaimed ==
    Analyzed =>
        /\ {"total_tests", "successful_tests", "failed_tests"} \subseteq Fields
        /\ analysis.total_tests = Len(samples)
        /\ analysis.total_tests = analysis.successful_tests + analysis.failed_tests
        /\ NoSuccess => "error" \in Fields

\* C10 amended: for any non-empty list the output reports the three counts,
\* total = success + failure = length of the list, and carries the marker
\* exactly when there is no success; for the empty list it reports no count,
\* only the marker of an empty result.
C10_CountsUnlessEmpty ==
    Analyzed =>
        /\ samples # <<>> =>
              /\ {"total_tests", "successful_tests", "failed_tests"} \subseteq Fields
              /\ analysis.total_tests = Len(samples)
              /\ analysis.total_tests
                    = analysis.successful_tests + analysis.failed_tests
              /\ analysis.successful_tests = Len(SelectSuccess(samples, TRUE))
              /\ NoSuccess <=> "error" \in Fields
        /\ samples = <<>> => analysis = [error |-> NoResults]

\* C10 witness: a mixed list (a failure and a success) has been analysed.
C10_Witness ==
    /\ Analyzed /\ Len(samples) = MaxLen
    /\ analysis.successful_tests > 0 /\ analysis.failed_tests > 0

\* The same list in another order: sample n of the new list is sample p[n].
Reordered(p) == [n \in 1..Len(samples) |-> samples[p[n]]]

AllSuccess == \A n \in 1..Len(samples) : samples[n].success

\* C12: for a non-empty list of successes only, min <= median <= max and
\* min <= mean <= max.
C12_StatsOrdered ==
    Analyzed /\ samples # <<>> /\ AllSuccess =>
        LET st == analysis.duration_stats
        IN /\ RatLeq(Rat(st.min, 1), st.median)
           /\ RatLeq(st.median, Rat(st.max, 1))
           /\ RatLeq(Rat(st.min, 1), st.mean)
           /\ RatLeq(st.mean, Rat(st.max, 1))

\* C12 witness: two successes of different durations, the longer one first,
\* have been analysed; the median lies strictly between them.
C12_Witness ==
    /\ Analyzed /\ Len(samples) = 2 /\ AllSuccess
    /\ samples[1].duration > samples[2].duration
    /\ analysis.duration_stats.median.den = 2

\* The successes of the list, by position, and what they add up to.
SuccessAt == {n \in 1..Len(samples) : samples[n].success}

RECURSIVE SuccessDurationUpTo(_)
SuccessDurationUpTo(n) ==
    IF n = 0 THEN 0
    ELSE SuccessDurationUpTo(n - 1)
            + (IF samples[n].success THEN samples[n].duration ELSE 0)

SuccessDuration == SuccessDurationUpTo(Len(samples))

\* C13: with at least one success, the success rate is successes / total,
\* the throughput is successes / sum of the successful durations (0 when that
\* sum is 0), and the latency statistics are those of the successful
\* durations alone: no failed duration enters them.
C13_RatesFromSuccesses ==
    Analyzed /\ SuccessAt # {} =>
        LET k == Cardinality(SuccessAt)
            st == analysis.duration_stats
        IN /\ analysis.success_rate = Rat(k, Len(samples))
           /\ SuccessDuration > 0 =>
                 analysis.throughput_qps = Rat(k, SuccessDuration)
           /\ SuccessDuration = 0 => analysis.throughput_qps = Rat(0, 1)
           /\ st.mean = Rat(SuccessDuration, k)
           /\ \E n \in SuccessAt : samples[n].duration = st.min
           /\ \E n \in SuccessAt : samples[n].duration = st.max
           /\ \A n \in SuccessAt :
                 st.min <= samples[n].duration /\ samples[n].duration <= st.max

\* C13 witness: a list has been analysed whose failure lasted longer than
\* every success, and whose successes took time.
C13_Witness ==
    /\ Analyzed /\ SuccessAt # {} /\ SuccessDuration > 0
    /\ \E f \in 1..Len(samples) :
         /\ ~samples[f].success
         /\ \A n \in SuccessAt : samples[n].duration < samples[f].duration

\* ------------------------------------------------ the rate-window calculator
RateReturned == rate_pc = "returned"

\* the counter of a snapshot as the claims read it: its number, 0 when missing
HasNumber(snapshot) ==
    CounterName \in DOMAIN snapshot => snapshot[CounterName].kind = "num"

CounterOrZero(snapshot) ==
    IF CounterName \in DOMAIN snapshot THEN snapshot[CounterName].val ELSE 0

\* rate = delta / duration, for a rate in lowest terms
IsQuotient(rate, delta, duration) ==
    rate.den > 0 /\ rate.num * duration = delta * rate.den

\* C7 as claimed: the calculator never reports a negative rate (a counter whose
\* final value is below its initial value is reported as indeterminate).
C7_AsClaimed ==
    RateReturned =>
        /\ rate_result.edge_events_per_second.num >= 0
        /\ rate_result.agg_events_per_second.num >= 0

\* C8: for a counter whose value in each snapshot is a number or is missing,
\* test_log_processing_rate returns and reports
\* (final - initial) / duration_seconds for the duration it was given, a
\* missing counter counting as 0.
C8_RateIsDeltaOverDuration ==
    /\ rate_pc = "raised" =>
          ~(HasNumber(initial_edge) /\ HasNumber(final_edge)
            /\ HasNumber(initial_agg) /\ HasNumber(final_agg))
    /\ RateReturned =>
          /\ rate_result.duration_seconds = rate_duration
          /\ rate_result.edge_events_processed
                = CounterOrZero(final_edge) - CounterOrZero(initial_edge)
          /\ rate_result.agg_events_processed
                = CounterOrZero(final_agg) - CounterOrZero(initial_agg)
          /\ IsQuotient(rate_result.edge_events_per_second,
                        CounterOrZero(final_edge) - CounterOrZero(initial_edge),
                        rate_duration)
          /\ IsQuotient(rate_result.agg_events_per_second,
                        CounterOrZero(final_agg) - CounterOrZero(initial_agg),
                        rate_duration)

\* C8 witness: the edge counter is missing from the first snapshot and is
\* MaxCounter in the second; over MaxWindow seconds the rate is their quotient.
C8_Witness ==
    /\ RateReturned
    /\ rate_duration = MaxWindow
    /\ CounterName \notin DOMAIN initial_edge
    /\ CounterName \in DOMAIN final_edge
    /\ final_edge[CounterName].val = MaxCounter
    /\ rate_result.edge_events_per_second = Rat(MaxCounter, MaxWindow)

\* a snapshot of a failed scrape
Marked(scraped) == ErrorKey \in DOMAIN scraped

RateEnded == rate_pc \in {"returned", "raised"}

\* C28 as claimed: when a scrape before the wait, after it, or both gave an
\* error-marked snapshot, test_log_processing_rate returns, the counter of a
\* marked snapshot counting as 0, and an endpoint both of whose scrapes failed
\* has a processed count and a rate of 0.
C28_AsClaimed ==
    (RateEnded /\ (Marked(initial_edge) \/ Marked(final_edge)
                   \/ Marked(initial_agg) \/ Marked(final_agg))) =>
        /\ RateReturned
        /\ rate_result.edge_events_processed
              = CounterOrZero(final_edge) - CounterOrZero(initial_edge)
        /\ rate_result.agg_events_processed
              = CounterOrZero(final_agg) - CounterOrZero(initial_agg)
        /\ (Marked(initial_edge) /\ Marked(final_edge)) =>
              /\ rate_result.edge_events_processed = 0
              /\ rate_result.edge_events_per_second = Rat(0, 1)
        /\ (Marked(initial_agg) /\ Marked(final_agg)) =>
              /\ rate_result.agg_events_processed = 0
              /\ rate_result.agg_events_per_second = Rat(0, 1)

\* ------------------------------------------------------------- a whole run
Sections == run_results

\* run_comprehensive_test has returned its dict to main
RunReturned == run_pc \in {"generate_report", "print", "save", "plot", "done"}

ConnectFailed == run_pc \notin {"start", "connect"} /\ ~connected

C6_AsClaimed ==
    /\ run_pc # "raised"
    /\ run_pc = "done" => printed /\ saved

\* The place of a state in the order of the phases of a run: connect, the
\* three sub-tests, the scrapes for the report, then inside
\* test_log_processing_rate the scrapes before the wait, the wait, the
\* scrapes after it and the rates, then the resource snapshot and the
\* returned result with what main does to it.
RunPhaseAt(at, rate_at) ==
    CASE at = "idle" -> 0
      [] at = "start" -> 0
      [] at = "connect" -> 1
      [] at = "single_query" -> 2
      [] at = "concurrent_query" -> 3
      [] at = "throughput" -> 4
      [] at = "edge_metrics" -> 5
      [] at = "agg_metrics" -> 6
      [] at = "processing_rate" ->
            (CASE rate_at = "idle" -> 7
               [] rate_at = "initial_edge" -> 8
               [] rate_at = "initial_agg" -> 9
               [] rate_at = "sleep" -> 10
               [] rate_at = "final_edge" -> 11
               [] rate_at = "final_agg" -> 12
               [] rate_at = "compute" -> 13
               [] rate_at \in {"returned", "raised"} -> 14)
      [] at = "resource_usage" -> 15
      [] at = "generate_report" -> 16
      [] at = "print" -> 17
      [] at = "save" -> 18
      [] at = "plot" -> 19
      [] at \in {"done", "raised"} -> 20

RunPhase == RunPhaseAt(run_pc, rate_pc)

WaitPhase == RunPhaseAt("processing_rate", "sleep")

\* C17: a run is a linear sequence: every step of it moves to a later phase
\* of the order connect, single, concurrent, throughput, scrapes, wait,
\* scrapes, rates, resources, result, so no phase happens twice and none is
\* gone back to; the 'before' snapshot of each endpoint is written before the
\* wait only and the 'after' snapshot after the wait only.
C17_LinearRun ==
    [][/\ RunPhase' > RunPhase
       /\ (initial_edge' # initial_edge \/ initial_agg' # initial_agg) =>
              RunPhase < WaitPhase /\ RunPhase' <= WaitPhase
       /\ (final_edge' # final_edge \/ final_agg' # final_agg) =>
              RunPhase > WaitPhase]_vars

\* C17 witness: a run that connected has gone through every phase to its end,
\* with counters that changed over the wait.
C17_Witness ==
    /\ run_pc = "done" /\ connected /\ rate_pc = "returned"
    /\ DOMAIN run_results.datafusion
          = {"single_query", "concurrent_query", "throughput"}
    /\ initial_edge # final_edge /\ initial_agg # final_agg

\* ------------------------------------------------------ the metrics scraper
ScrapeReturned == scrape_pc = "returned"

ScrapeFailed ==
    response.kind = "exception" \/ response.status_code # 200

\* C18: get_metrics returns on every response; when the request raised or was
\* answered with a status other than 200, the dict it returns holds the error
\* marker, a text, and nothing else, whatever the body was.
C18_FailedScrapeIsMarked ==
    /\ scrape_pc = "request" => ENABLED Scrape
    /\ ScrapeReturned /\ ScrapeFailed =>
          /\ DOMAIN metrics_snapshot = {ErrorKey}
          /\ metrics_snapshot[ErrorKey].kind = "str"

\* C18 witness: a request answered 500 with the counter in its body has
\* returned.
C18_Witness ==
    /\ ScrapeReturned /\ response.kind = "response"
    /\ response.status_code = 500
    /\ response.text = <<CounterLine(1), <<>>>>

ScrapeParsed ==
    ScrapeReturned /\ response.kind = "response" /\ response.status_code = 200

IsComment(line) == line # <<>> /\ line[1] = "#"

IsBlank(line) == \A n \in 1..Len(line) : line[n] \in Whitespace

\* where a line has its first whitespace character, 0 if it has none
WhitespaceAt(line) ==
    IF \E n \in 1..Len(line) : line[n] \in Whitespace
    THEN CHOOSE n \in 1..Len(line) :
            line[n] \in Whitespace /\ \A k \in 1..(n - 1) : line[k] \notin Whitespace
    ELSE 0

\* the text of a line in front of its first whitespace character
NameInFront(line) ==
    IF WhitespaceAt(line) = 0 THEN line
    ELSE SubSeq(line, 1, WhitespaceAt(line) - 1)

\* C19 as claimed: every line that is neither a comment nor blank is split at
\* its first whitespace, so the dict has an entry under the name in front of
\* it.
C19_AsClaimed ==
    ScrapeParsed =>
        \A n \in 1..Len(response.text) :
            LET line == response.text[n]
            IN ~IsComment(line) /\ ~IsBlank(line) =>
                  NameInFront(line) \in DOMAIN metrics_snapshot

\* the lines _parse_metrics stores: neither comment nor blank, with a " "
HasSpace(line) == \E n \in 1..Len(line) : line[n] = " "

Stored(line) == ~IsComment(line) /\ ~IsBlank(line) /\ HasSpace(line)

SpaceAt(line) == CHOOSE n \in 1..Len(line) : line[n] = " " /\ ~HasSpace(SubSeq(line, 1, n - 1))

NameOf(line) == SubSeq(line, 1, SpaceAt(line) - 1)

ValueOf(line) == SubSeq(line, SpaceAt(line) + 1, Len(line))

\* a value float() takes: digits, with whitespace around them at most
IsNumber(value) ==
    \E a, b \in 1..Len(value) :
        /\ a <= b
        /\ \A n \in 1..Len(value) :
              IF a <= n /\ n <= b THEN IsDigit(value[n])
              ELSE value[n] \in Whitespace

\* the last stored line of the text with a given name
LastNamed(text, name) ==
    CHOOSE n \in 1..Len(text) :
        /\ Stored(text[n]) /\ NameOf(text[n]) = name
        /\ \A k \in (n + 1)..Len(text) :
              ~(Stored(text[k]) /\ NameOf(text[k]) = name)

\* C19 amended: every line that starts with "#" and every blank line is
\* ignored, and so is every other line without a space character (a bare
\* word, or a name and a value with a tab between them); every other line
\* with a space character is split at its first space character into a name
\* and a value, the last line of a name giving its value; the value is
\* stored as a number when it parses as one and as its text otherwise; no
\* line stops the lines after it from being parsed.
C19_SplitAtFirstSpace ==
    ScrapeParsed =>
        LET text == response.text
        IN /\ DOMAIN metrics_snapshot
                 = {NameOf(text[n]) : n \in {k \in 1..Len(text) : Stored(text[k])}}
           /\ \A name \in DOMAIN metrics_snapshot :
                 LET value == ValueOf(text[LastNamed(text, name)])
                 IN IF IsNumber(value)
                    THEN /\ metrics_snapshot[name].kind = "num"
                         /\ metrics_snapshot[name].val = FloatOf(value)
                    ELSE metrics_snapshot[name] = Text(value)

\* C19 witness: a text has been parsed whose first line has a tab between
\* name and number and whose second line gives the counter a text value; the
\* dict holds the second line alone.
C19_Witness ==
    /\ ScrapeParsed
    /\ response.text = <<CounterName \o <<"\t", "1">>, TextLine>>
    /\ metrics_snapshot = (CounterName :> Text(<<"x">>))

\* ------------------------------------------------------ the report generator
ReportWritten == run_pc = "print"

\* a sub-test all of whose records were failures
FullyFailed(test_results) ==
    /\ "successful_tests" \in DOMAIN test_results
    /\ test_results.successful_tests = 0

\* C22: generate_report returns a text for every result dict: for each
\* sub-test of the datafusion section, an entry with an error marker (an empty
\* list of records, or failures only) is shown by that marker alone, a fully
\* failed sub-test by the marker of no success, and any other entry by its
\* total and success rate; an empty section gives an empty block.
C22_ReportTotal ==
    /\ run_pc = "generate_report" => ENABLED MainReport
    /\ ReportWritten =>
          /\ DOMAIN report.datafusion = DOMAIN run_results.datafusion
          /\ \A t \in DOMAIN run_results.datafusion :
                LET test_results == run_results.datafusion[t]
                    shown == report.datafusion[t]
                IN /\ "error" \in DOMAIN test_results =>
                         /\ DOMAIN shown = {"error"}
                         /\ shown.error = test_results.error
                   /\ FullyFailed(test_results) =>
                         /\ DOMAIN shown = {"error"}
                         /\ shown.error = AllFailed
                   /\ "error" \notin DOMAIN test_results =>
                         /\ "error" \notin DOMAIN shown
                         /\ shown.total_tests = test_results.total_tests
                         /\ shown.success_rate = test_results.success_rate

\* C22 witness: a report has been written for a dict whose first sub-test
\* had no record, whose second had failures only and whose third succeeded.
C22_Witness ==
    /\ ReportWritten
    /\ DOMAIN run_results.datafusion = SubTests
    /\ run_results.datafusion["single_query"] = AnalyzeResults(<<>>)
    /\ FullyFailed(run_results.datafusion["concurrent_query"])
    /\ "error" \notin DOMAIN run_results.datafusion["throughput"]
    /\ report.datafusion["concurrent_query"].error = AllFailed

\* ------------------------------------------------------------- the client
\* C26: a query the service rejects surfaces as a failure and never as a
\* success: the call of the client's execute_query that met the rejection
\* raised, and the timer's record of it has success = FALSE; a call made
\* without a connection raised 'not connected' and issued no request; so the
\* calls that raised are the rejected requests and the calls made without a
\* connection, and a call that returned was answered.
C26_RejectionIsFailure ==
    /\ client_answer = "rejected" =>
          /\ client_result.kind = "raise" /\ client_result.value = Err
          /\ ~timer_sample.success /\ timer_sample.error = Err
    /\ client_result.kind = "return" =>
          client_answer = "ok" /\ timer_sample.success
    /\ (client = None /\ client_calls > 0) =>
          /\ client_result.kind = "raise" /\ client_result.value = NotConnected
          /\ client_requests = 0
    /\ client_raised = client_rejections + (client_calls - client_requests)

\* C26 witness: a connected client has made MaxCalls calls, the last of them
\* rejected, after a call made before connect() that issued no request.
C26_Witness ==
    /\ client = FlightClient /\ client_calls = MaxCalls
    /\ client_answer = "rejected" /\ client_result.kind = "raise"
    /\ client_requests = MaxCalls - 1 /\ client_rejections = 1
    /\ client_raised = 2
====
